---- MODULE Spec2Model ----
(***************************************************************************)
(* Model of the knowledge-base setup script (src/unnamed/part_000):        *)
(* main's provisioning sequence, the create-or-adopt handling of each      *)
(* creation step, the activation poller waitForKnowledgeBase, the          *)
(* incremental upload uploadDocuments and the start of the ingestion job;   *)
(* and of the upload script (src/scripts/README.md, lines 266-412), which   *)
(* runs the same uploadDocuments and startIngestionJob on their own and     *)
(* may be run again on the same bucket.                                    *)
(* ChatSpec models the chat route (src/app/api/chat/route.ts): POST, the    *)
(* steps of streamText and the retrieval tool.  RaceSpec models two runs   *)
(* of uploadDocuments on one bucket.                                       *)
(*                                                                         *)
(* The AWS services are external: every response of a service call is an   *)
(* input, drawn with \E from the outcomes the code distinguishes.          *)
(* Strings are TLA+ strings; template literals are built with \o.          *)
(***************************************************************************)
EXTENDS Integers, Sequences, FiniteSets, TLC

VARIABLES
    script,           \* what this process runs: "setup", "upload", "chat" or "race"
    run,              \* number of the current run of the upload script
    completedTrees,   \* file trees that an earlier run of uploadDocuments completed
    bucketAnswers,    \* createDocumentsBucket: answers of CreateBucket and of the wait
    CONFIG,           \* the configuration record read from the environment
    pc,               \* main's position: the step about to run, "done" or "exit"
    exitCode,         \* process exit status: -1 while running, 0 or 1
    errorMessage,     \* error.message seen by main's catch ("" if none)
    failedStep,       \* the step whose error reached main's catch ("" if none)
    lastError,        \* error.name of the last creation call that was rejected
    s3BucketName,     \* main's local: result of createDocumentsBucket
    vectorBucketArn,  \* main's local: result of createVectorsBucket
    indexArn,         \* main's local: result of createVectorIndex
    knowledgeBaseId,  \* main's local: result of createKnowledgeBase
    dataSourceId,     \* main's local: result of createDataSource
    calls,            \* service commands sent so far, in order (status queries excluded)
    attempts,         \* waitForKnowledgeBase: let attempts
    wpc,              \* waitForKnowledgeBase: "idle", "query" (about to send) or "sleep"
    status,           \* answer to the last status query ("" before the first)
    queries,          \* number of GetKnowledgeBaseCommand sent
    sleeps,           \* number of 10 s sleeps completed
    sawFailed,        \* some query was answered FAILED
    sawError,         \* some query raised an error
    spinnerStops,     \* messages the poller's spinner was stopped with
    bucket,           \* keys held by the documents bucket (owned by the object store)
    localFiles,       \* uploadDocuments: the files found under DOCUMENTS_DIR
    existingKeys,     \* uploadDocuments: the key snapshot of getExistingKeys
    continuationToken,\* getExistingKeys: << >> (undefined) or << cursor >>
    upc,              \* uploadDocuments: "idle", "list" or "loop"
    fileIdx,          \* uploadDocuments: position of the for loop in localFiles
    uploaded,         \* uploadDocuments: let uploaded
    skipped,          \* uploadDocuments: let skipped
    puts,             \* keys of the PutObjectCommands sent, in order
    notice,           \* what uploadDocuments reported: "", "noop" or "complete"
    chat,             \* the chat route's request in progress (fields: see ChatIdle)
    race              \* two runs of uploadDocuments on one bucket (fields: see RaceIdle)

vars == << script, run, completedTrees, bucketAnswers, CONFIG, pc, exitCode, errorMessage, failedStep, lastError,
           s3BucketName, vectorBucketArn, indexArn, knowledgeBaseId,
           dataSourceId, calls, attempts, wpc, status, queries, sleeps,
           sawFailed, sawError, spinnerStops, bucket, localFiles, existingKeys,
           continuationToken, upc, fileIdx, uploaded, skipped, puts, notice,
           chat, race >>

mainVars == << s3BucketName, vectorBucketArn, indexArn, knowledgeBaseId, dataSourceId >>
pollVars == << attempts, wpc, status, queries, sleeps, sawFailed, sawError,
               spinnerStops >>
runVars == << script, run, completedTrees >>
uploadVars == << localFiles, existingKeys, continuationToken, upc, fileIdx,
                 uploaded, skipped, puts, notice >>

-----------------------------------------------------------------------------
(* Configuration and the values the services may hand back.                *)

RoleArns == {"", "arn:aws:iam::1:role/kb"}
BucketNames == {"kb-documents", "my-docs"}
VectorBucketNames == {"kb-vectors"}
IndexNames == {"kb-index", "idx"}

\* CONFIG (lines 15-23): each field is the environment's value or the default.
ConfigSpace ==
    [ roleArn : RoleArns,
      s3BucketName : BucketNames,
      s3VectorsBucketName : VectorBucketNames,
      indexName : IndexNames ]

\* ARNs and identifiers chosen by the services on a fresh create.
VectorBucketArns == {"arn:vb/kb-vectors", "arn:vb2/kb-vectors"}
ServiceIndexArns == {"arn:vb/kb-vectors/index/kb-index", "arn:svc/index/9"}
KnowledgeBaseIds == {"KB1"}
DataSourceIds == {"DS1"}

\* A path or key is a sequence of characters.  LocalPaths are paths relative
\* to DOCUMENTS_DIR as path.relative yields them; RemoteKeys are the keys an
\* adopted bucket may already hold.
LocalPaths == { << "a" >>, << "d", "/", "b" >>, << "d", "\\", "b" >> }
RemoteKeys == { << "a" >>, << "d", "/", "b" >> }
MaxFiles == 2
PageSize == 1
\* How many times the upload script is run on the same bucket.
MaxRuns == 2

\* error.name values of a rejected creation call.
OtherError == "ServiceError"
BucketAlreadyOwnedByYou == "BucketAlreadyOwnedByYou"
VectorBucketAlreadyExists == "VectorBucketAlreadyExists"
IndexAlreadyExists == "IndexAlreadyExists"
ConflictException == "ConflictException"

\* Whether error.name is an "already exists" answer of some service.
IsAlreadyExists(name) ==
    name \in { BucketAlreadyOwnedByYou, VectorBucketAlreadyExists,
               IndexAlreadyExists, ConflictException }

-----------------------------------------------------------------------------
(* main's catch block (lines 438-442): log, then process.exit(1).          *)

\* A catch that reports the error and lets the process end with status 0.
mainCatch_exitsZero(step, message) ==
    /\ pc' = "exit"
    /\ exitCode' = 0
    /\ errorMessage' = message
    /\ failedStep' = step

\* catch (error) of main (lines 438-442; README lines 405-409).
mainCatch(step, message) ==
    /\ pc' = "exit"
    /\ exitCode' = 1
    /\ errorMessage' = message
    /\ failedStep' = step

\* A validation that takes every value for present.
isMissing_never(value) == FALSE

\* `!CONFIG.roleArn` and the like (line 383; README line 395).
isMissing(value) == value = ""

\* CONFIG of the upload script (README lines 273-278).
UploadConfigSpace ==
    [ s3BucketName : {"", "my-docs"},
      knowledgeBaseId : {"", "KB1"},
      dataSourceId : {"", "DS1"} ]

\* The setup script starts on an account where its bucket may or may not
\* exist (createDocumentsBucket finds out); the upload script runs against
\* an existing bucket holding any of RemoteKeys.
\* No chat request is being handled.  Fields of chat:
\*   indexArn    process.env.S3_VECTORS_INDEX_ARN ("" when unset)
\*   body        the request body received
\*   hpc         "idle"; "POST" (request received); "model" (streamText about
\*               to call the model); "tool" (a getInformation call pending);
\*               "returned" (JSON error response sent); "finished" (stream ended)
\*   response    the Response returned by POST ([status |-> 0] before)
\*   steps       steps streamText has completed
\*   modelCalls, embedCalls, queryCalls
\*               requests sent to the model, the embedding model, the index
\*   results     queryResponse.vectors of the latest tool call
\*   content     what the latest tool call returned
\*   toolPath    how the latest tool call ended: "", "unconfigured",
\*               "failed", "ok" or "threw"
\*   streamError the model service's error was written to the stream
ChatIdle ==
    [ indexArn |-> "", body |-> "", hpc |-> "idle", response |-> [status |-> 0],
      steps |-> 0, modelCalls |-> 0, embedCalls |-> 0, queryCalls |-> 0,
      results |-> << >>, content |-> << >>, toolPath |-> "", streamError |-> FALSE ]

\* An uploadDocuments call before its first statement: its locals.
UploaderStart ==
    [ upc |-> "start", existingKeys |-> {}, continuationToken |-> << >>,
      fileIdx |-> 0, uploaded |-> 0, skipped |-> 0, puts |-> << >> ]

\* No second uploader.  Fields of race:
\*   serial   TRUE when run 2 starts only after run 1 has ended
\*   tree     the files under DOCUMENTS_DIR, the same for both runs
\*   R        the bucket's keys before the runs
\*   up       the locals of uploadDocuments in run 1 and run 2, with upc one
\*            of "start", "list", "loop", "returned", "failed"
RaceIdle ==
    [ serial |-> TRUE, tree |-> << >>, R |-> {}, up |-> [i \in {1, 2} |-> UploaderStart] ]

\* A process right after start: nothing sent, no local set.
ProcessStart ==
    /\ run = 1
    /\ completedTrees = {}
    /\ bucketAnswers = [create |-> "", wait |-> ""]
    /\ exitCode = -1
    /\ errorMessage = ""
    /\ failedStep = ""
    /\ lastError = ""
    /\ s3BucketName = ""
    /\ vectorBucketArn = ""
    /\ indexArn = ""
    /\ knowledgeBaseId = ""
    /\ dataSourceId = ""
    /\ calls = << >>
    /\ attempts = 0
    /\ wpc = "idle"
    /\ status = ""
    /\ queries = 0
    /\ sleeps = 0
    /\ sawFailed = FALSE
    /\ sawError = FALSE
    /\ spinnerStops = {}
    /\ localFiles = << >>
    /\ existingKeys = {}
    /\ continuationToken = << >>
    /\ upc = "idle"
    /\ fileIdx = 0
    /\ uploaded = 0
    /\ skipped = 0
    /\ puts = << >>
    /\ notice = ""

Init ==
    /\ script \in {"setup", "upload"}
    /\ IF script = "setup"
         THEN /\ CONFIG \in ConfigSpace
              /\ pc = "main"
              /\ bucket = {}
         ELSE /\ CONFIG \in UploadConfigSpace
              /\ pc = "uploadMain"
              /\ bucket \in SUBSET RemoteKeys
    /\ ProcessStart
    /\ chat = ChatIdle
    /\ race = RaceIdle

\* main, lines 369-387: print the configuration, validate the role ARN.
main ==
    /\ pc = "main"
    /\ IF isMissing(CONFIG.roleArn)
         THEN /\ pc' = "exit"
              /\ exitCode' = 1
              /\ errorMessage' = "BEDROCK_KB_ROLE_ARN environment variable is required"
              /\ failedStep' = "main"
         ELSE /\ pc' = "createDocumentsBucket"
              /\ UNCHANGED << exitCode, errorMessage, failedStep >>
    /\ UNCHANGED << runVars, race, chat, bucketAnswers, CONFIG, lastError, mainVars, calls, pollVars, bucket, uploadVars >>

-----------------------------------------------------------------------------
(* The creation functions.  Each returns [threw, value, error]: the value   *)
(* returned, or the error.name thrown to the caller.                       *)

Return(v) == [threw |-> FALSE, value |-> v, error |-> ""]
Throw(e) == [threw |-> TRUE, value |-> "", error |-> e]

\* A reconstruction that leaves the "/index/" segment out.
reconstructIndexArn_noIndexSegment(vbArn, name) == vbArn \o "/" \o name

\* `${vectorBucketArn}/index/${indexName}` (line 193).
reconstructIndexArn(vbArn, name) == vbArn \o "/index/" \o name

\* createDocumentsBucket without the BucketAlreadyOwnedByYou branch: every
\* error is rethrown.
createDocumentsBucketResult_noAdopt(bucketName, createResp, waitResp) ==
    IF createResp # "ok" THEN Throw(createResp)
    ELSE IF waitResp # "ok" THEN Throw(waitResp)
    ELSE Return(bucketName)

\* createDocumentsBucket that does not await the existence wait: its failure
\* goes unnoticed.
createDocumentsBucketResult_ignoresWait(bucketName, createResp, waitResp) ==
    IF createResp = "ok" \/ createResp = BucketAlreadyOwnedByYou
      THEN Return(bucketName)
      ELSE Throw(createResp)

\* createDocumentsBucket (lines 34-58).  createResp answers CreateBucketCommand,
\* waitResp answers waitUntilBucketExists (only consulted after a successful
\* create).  Both awaits sit in the same try block.
createDocumentsBucketResult(bucketName, createResp, waitResp) ==
    LET thrown == IF createResp # "ok" THEN createResp
                  ELSE IF waitResp # "ok" THEN waitResp
                  ELSE ""
    IN  IF thrown = "" THEN Return(bucketName)
        ELSE IF thrown = BucketAlreadyOwnedByYou THEN Return(bucketName)
        ELSE Throw(thrown)

\* createVectorsBucket (lines 139-162).  The catch block picks the spinner
\* message by error.name and then rethrows in both branches (line 160).
createVectorsBucketResult(resp, arn) ==
    IF resp = "ok" THEN Return(arn) ELSE Throw(resp)

\* createVectorIndex (lines 165-202).
createVectorIndexResult(vbArn, name, resp, arn) ==
    IF resp = "ok" THEN Return(arn)
    ELSE IF resp = IndexAlreadyExists THEN Return(reconstructIndexArn(vbArn, name))
    ELSE Throw(resp)

\* createKnowledgeBase (lines 205-249): every error is logged and rethrown.
createKnowledgeBaseResult(resp, id) ==
    IF resp = "ok" THEN Return(id) ELSE Throw(resp)

\* createDataSource whose catch logs the error and does not rethrow it.
createDataSourceResult_swallows(resp, id) ==
    IF resp = "ok" THEN Return(id) ELSE Return("")

\* createDataSource (lines 252-291): every error is logged and rethrown.
createDataSourceResult(resp, id) ==
    IF resp = "ok" THEN Return(id) ELSE Throw(resp)

-----------------------------------------------------------------------------
(* main's steps 1-4 (lines 389-400).  A thrown error lands in main's catch. *)

\* Step 1.
createDocumentsBucket ==
    /\ pc = "createDocumentsBucket"
    /\ \E createResp \in {"ok", BucketAlreadyOwnedByYou, OtherError},
          waitResp \in {"ok", "TimeoutError"} :
         LET r == createDocumentsBucketResult(CONFIG.s3BucketName, createResp, waitResp)
         IN  /\ calls' = IF createResp = "ok"
                           THEN calls \o << "CreateBucket", "HeadBucket" >>
                           ELSE Append(calls, "CreateBucket")
             /\ lastError' = IF createResp # "ok" THEN createResp
                             ELSE IF waitResp # "ok" THEN waitResp ELSE ""
             /\ bucketAnswers' = [create |-> createResp,
                                   wait |-> IF createResp = "ok" THEN waitResp ELSE ""]
             \* a bucket just created is empty; one left by an earlier run may
             \* hold objects
             /\ IF createResp = BucketAlreadyOwnedByYou
                  THEN bucket' \in SUBSET RemoteKeys
                  ELSE bucket' = bucket
             /\ IF r.threw
                  THEN /\ mainCatch("createDocumentsBucket", r.error)
                       /\ UNCHANGED s3BucketName
                  ELSE /\ s3BucketName' = r.value
                       /\ pc' = "createVectorsBucket"
                       /\ UNCHANGED << exitCode, errorMessage, failedStep >>
    /\ UNCHANGED << runVars, race, chat, CONFIG, vectorBucketArn, indexArn, knowledgeBaseId,
                    dataSourceId, pollVars, uploadVars >>

\* Step 2.
createVectorsBucket ==
    /\ pc = "createVectorsBucket"
    /\ \E resp \in {"ok", VectorBucketAlreadyExists, OtherError},
          arn \in VectorBucketArns :
         LET r == createVectorsBucketResult(resp, arn)
         IN  /\ calls' = Append(calls, "CreateVectorBucket")
             /\ lastError' = IF resp = "ok" THEN "" ELSE resp
             /\ IF r.threw
                  THEN /\ mainCatch("createVectorsBucket", r.error)
                       /\ UNCHANGED vectorBucketArn
                  ELSE /\ vectorBucketArn' = r.value
                       /\ pc' = "createVectorIndex"
                       /\ UNCHANGED << exitCode, errorMessage, failedStep >>
    /\ UNCHANGED << runVars, race, chat, bucketAnswers, CONFIG, s3BucketName, indexArn, knowledgeBaseId,
                    dataSourceId, pollVars, bucket, uploadVars >>

\* Step 3.
createVectorIndex ==
    /\ pc = "createVectorIndex"
    /\ \E resp \in {"ok", IndexAlreadyExists, OtherError},
          arn \in ServiceIndexArns :
         LET r == createVectorIndexResult(vectorBucketArn, CONFIG.indexName, resp, arn)
         IN  /\ calls' = Append(calls, "CreateIndex")
             /\ lastError' = IF resp = "ok" THEN "" ELSE resp
             /\ IF r.threw
                  THEN /\ mainCatch("createVectorIndex", r.error)
                       /\ UNCHANGED indexArn
                  ELSE /\ indexArn' = r.value
                       /\ pc' = "createKnowledgeBase"
                       /\ UNCHANGED << exitCode, errorMessage, failedStep >>
    /\ UNCHANGED << runVars, race, chat, bucketAnswers, CONFIG, s3BucketName, vectorBucketArn, knowledgeBaseId,
                    dataSourceId, pollVars, bucket, uploadVars >>

\* Step 4.  On success main calls waitForKnowledgeBase, which starts its
\* spinner and enters the loop with attempts = 0 (lines 295-301).
createKnowledgeBase ==
    /\ pc = "createKnowledgeBase"
    /\ \E resp \in {"ok", ConflictException, OtherError},
          id \in KnowledgeBaseIds :
         LET r == createKnowledgeBaseResult(resp, id)
         IN  /\ calls' = Append(calls, "CreateKnowledgeBase")
             /\ lastError' = IF resp = "ok" THEN "" ELSE resp
             /\ IF r.threw
                  THEN /\ mainCatch("createKnowledgeBase", r.error)
                       /\ UNCHANGED << knowledgeBaseId, wpc >>
                  ELSE /\ knowledgeBaseId' = r.value
                       /\ pc' = "waitForKnowledgeBase"
                       /\ wpc' = "query"
                       /\ UNCHANGED << exitCode, errorMessage, failedStep >>
    /\ UNCHANGED << runVars, race, chat, bucketAnswers, CONFIG, s3BucketName, vectorBucketArn, indexArn, dataSourceId,
                    attempts, status, queries, sleeps, sawFailed, sawError,
                    spinnerStops, bucket, uploadVars >>

-----------------------------------------------------------------------------
(* waitForKnowledgeBase (lines 294-334).                                   *)

maxAttempts == 30

\* knowledgeBase.status values; undefined is shown as UNKNOWN (line 319).
Statuses == {"CREATING", "UNKNOWN", "ACTIVE", "FAILED"}
\* A status query either answers with a status or raises.
QueryRaised == "ERROR"
QueryResponses == Statuses \cup {QueryRaised}

FailedMessage == "Knowledge Base creation failed"
TimeoutMessage == "Timeout waiting for Knowledge Base to become active"
CatchTimeoutMessage == "Timeout waiting for Knowledge Base"
QueryErrorMessage == "GetKnowledgeBase request failed"

\* Loop conditions that are off by one, either way.
loopCondition_oneShort(a) == a < maxAttempts - 1
loopCondition_oneMore(a) == a <= maxAttempts

\* The while condition (line 301).
loopCondition(a) == a < maxAttempts

\* A try body that takes every status but FAILED for success.
tryBody_returnsUnlessFailed(st, a) ==
    IF st = "FAILED"
      THEN [ctl |-> "throw", attempts |-> a, stops |-> {FailedMessage},
            error |-> FailedMessage]
      ELSE [ctl |-> "return", attempts |-> a, stops |-> {"ACTIVE"}, error |-> ""]

\* The try body once the status is known (lines 308-320).  ctl is what
\* happens next: "return", "throw" (into the catch of line 322) or "sleep".
tryBody(st, a) ==
    IF st = "ACTIVE"
      THEN [ctl |-> "return", attempts |-> a, stops |-> {"ACTIVE"}, error |-> ""]
    ELSE IF st = "FAILED"
      THEN [ctl |-> "throw", attempts |-> a, stops |-> {FailedMessage},
            error |-> FailedMessage]
    ELSE [ctl |-> "sleep", attempts |-> a + 1, stops |-> {}, error |-> ""]

\* A catch block that never retries.
\* A catch block that sleeps and retries without counting the attempt.
catchBlock_neverCounts(err, a) ==
    [ctl |-> "sleep", attempts |-> a, stops |-> {}, error |-> ""]

catchBlock_rethrows(err, a) ==
    [ctl |-> "rethrow", attempts |-> a, stops |-> {CatchTimeoutMessage}, error |-> err]

\* The catch block (lines 322-329), entered with the error thrown inside the
\* try block: a rejected send, or the Error of line 315.
catchBlock(err, a) ==
    IF a >= maxAttempts - 1
      THEN [ctl |-> "rethrow", attempts |-> a, stops |-> {CatchTimeoutMessage},
            error |-> err]
      ELSE [ctl |-> "sleep", attempts |-> a + 1, stops |-> {}, error |-> ""]

\* One pass through the loop body for the response resp (lines 302-329).
loopBody(resp, a) ==
    IF resp = QueryRaised
      THEN catchBlock(QueryErrorMessage, a)
      ELSE LET t == tryBody(resp, a)
           IN  IF t.ctl = "throw"
                 THEN LET c == catchBlock(t.error, t.attempts)
                      IN  [c EXCEPT !.stops = t.stops \cup c.stops]
                 ELSE t

\* The poller sends GetKnowledgeBaseCommand and handles the answer, up to the
\* next await (the sleep) or to the end of the function.
waitForKnowledgeBase ==
    /\ pc = "waitForKnowledgeBase"
    /\ wpc = "query"
    /\ \E resp \in QueryResponses :
         LET r == loopBody(resp, attempts)
         IN  /\ queries' = queries + 1
             /\ status' = resp
             /\ sawFailed' = (sawFailed \/ resp = "FAILED")
             /\ sawError' = (sawError \/ resp = QueryRaised)
             /\ attempts' = r.attempts
             /\ spinnerStops' = spinnerStops \cup r.stops
             /\ CASE r.ctl = "return" ->
                       /\ pc' = "createDataSource"
                       /\ wpc' = "idle"
                       /\ UNCHANGED << exitCode, errorMessage, failedStep >>
                  [] r.ctl = "sleep" ->
                       /\ wpc' = "sleep"
                       /\ UNCHANGED << pc, exitCode, errorMessage, failedStep >>
                  [] r.ctl = "rethrow" ->
                       /\ wpc' = "idle"
                       /\ mainCatch("waitForKnowledgeBase", r.error)
    /\ UNCHANGED << runVars, race, chat, bucketAnswers, CONFIG, lastError, mainVars, calls, sleeps, bucket, uploadVars >>

\* The 10 s timer fires (lines 320, 328); the loop condition is evaluated and
\* the loop either sends the next query or falls through to lines 332-333.
waitSleep ==
    /\ pc = "waitForKnowledgeBase"
    /\ wpc = "sleep"
    /\ sleeps' = sleeps + 1
    /\ IF loopCondition(attempts)
         THEN /\ wpc' = "query"
              /\ UNCHANGED << pc, exitCode, errorMessage, failedStep, spinnerStops >>
         ELSE /\ wpc' = "idle"
              /\ spinnerStops' = spinnerStops \cup {TimeoutMessage}
              /\ mainCatch("waitForKnowledgeBase", TimeoutMessage)
    /\ UNCHANGED << runVars, race, chat, bucketAnswers, CONFIG, lastError, mainVars, calls, attempts, status, queries,
                    sawFailed, sawError, bucket, uploadVars >>

-----------------------------------------------------------------------------
(* main's step 6 (line 406).  waitForKnowledgeBase has returned: its       *)
(* locals and what was observed of that call are out of scope from here.   *)

pollerFrameDropped ==
    /\ attempts' = 0
    /\ wpc' = "idle"
    /\ status' = ""
    /\ queries' = 0
    /\ sleeps' = 0
    /\ sawFailed' = FALSE
    /\ sawError' = FALSE
    /\ spinnerStops' = {}

createDataSource ==
    /\ pc = "createDataSource"
    /\ pollerFrameDropped
    /\ \E resp \in {"ok", ConflictException, OtherError},
          id \in DataSourceIds :
         LET r == createDataSourceResult(resp, id)
         IN  /\ calls' = Append(calls, "CreateDataSource")
             /\ lastError' = IF resp = "ok" THEN "" ELSE resp
             /\ IF r.threw
                  THEN /\ mainCatch("createDataSource", r.error)
                       /\ UNCHANGED dataSourceId
                  ELSE /\ dataSourceId' = r.value
                       /\ pc' = "uploadDocuments"
                       /\ UNCHANGED << exitCode, errorMessage, failedStep >>
    /\ UNCHANGED << runVars, race, chat, bucketAnswers, CONFIG, s3BucketName, vectorBucketArn, indexArn,
                    knowledgeBaseId, bucket, uploadVars >>

-----------------------------------------------------------------------------
(* main's step 7: uploadDocuments (lines 60-136).                          *)

\* What getLocalDocumentFiles may find: up to MaxFiles distinct files, in the
\* order the directory walk yields them.
LocalTrees ==
    UNION { { f \in [1..n -> LocalPaths] : \A i, j \in 1..n : f[i] = f[j] => i = j }
            : n \in 0..MaxFiles }

\* The relative path taken as the key, separators untouched.
normalizeKey_keepsBackslash(path) == path

\* path.relative(DOCUMENTS_DIR, filePath).replace(/\\/g, '/') (line 119).
normalizeKey(path) == [i \in DOMAIN path |-> IF path[i] = "\\" THEN "/" ELSE path[i]]

\* An emptiness test that never holds.
noLocalFiles_never(files) == FALSE

\* localFiles.length === 0 (line 106).
noLocalFiles(files) == Len(files) = 0

\* keys kept from the latest page only.
keysAdd_lastPageOnly(keys, page) == page

\* response.Contents?.forEach(item => keys.add(item.Key)) (lines 93-95).
keysAdd(keys, page) == keys \cup page

\* A listing that never follows the continuation token.
nextContinuationToken_dropped(isTruncated, token) == << >>

\* response.IsTruncated ? response.NextContinuationToken : undefined (line 96);
\* << >> stands for undefined.
nextContinuationToken(isTruncated, token) == IF isTruncated THEN << token >> ELSE << >>

\* A membership test on a snapshot that each put of this run is added to.
existingKeysHas_seesPuts(keys, key) ==
    key \in keys \/ \E i \in DOMAIN puts : puts[i] = key

\* A membership test with its sense inverted.
existingKeysHas_inverted(keys, key) == key \notin keys

\* A membership test that never finds the key.
existingKeysHas_never(keys, key) == FALSE

\* existingKeys.has(key) (line 120).
existingKeysHas(keys, key) == key \in keys

\* uploadDocuments up to the first listing request (lines 103-111).
uploadDocuments ==
    /\ pc = "uploadDocuments"
    /\ upc = "idle"
    /\ \E fsResp \in {"ok", "EACCES"}, files \in LocalTrees :
         IF fsResp # "ok"
           THEN /\ mainCatch("uploadDocuments", fsResp)
                /\ UNCHANGED << localFiles, upc, notice >>
           ELSE /\ localFiles' = files
                /\ IF noLocalFiles(files)
                     THEN /\ notice' = "noop"
                          /\ pc' = "startIngestionJob"
                          /\ UNCHANGED upc
                     ELSE /\ upc' = "list"
                          /\ UNCHANGED << pc, notice >>
                /\ UNCHANGED << exitCode, errorMessage, failedStep >>
    /\ UNCHANGED << runVars, race, chat, bucketAnswers, CONFIG, lastError, mainVars, calls, pollVars, bucket,
                    existingKeys, continuationToken, fileIdx, uploaded, skipped, puts >>

\* getExistingKeys (lines 83-100): one ListObjectsV2Command and its answer.
\* The store answers with a page of at most PageSize keys of the part of
\* the listing the token stands for, truncated when keys remain.
getExistingKeys ==
    /\ pc = "uploadDocuments"
    /\ upc = "list"
    /\ calls' = Append(calls, "ListObjectsV2")
    /\ LET rest == IF continuationToken = << >> THEN bucket ELSE continuationToken[1]
       IN  \E resp \in {"ok", OtherError} :
             IF resp # "ok"
               THEN /\ mainCatch("uploadDocuments", resp)
                    /\ UNCHANGED << existingKeys, continuationToken, upc, fileIdx,
                                    uploaded, skipped >>
               ELSE \E page \in SUBSET rest :
                      /\ Cardinality(page) <= PageSize
                      /\ (page = {}) => (rest = {})
                      /\ existingKeys' = keysAdd(existingKeys, page)
                      /\ continuationToken' =
                           nextContinuationToken(rest \ page # {}, rest \ page)
                      \* while (continuationToken), line 97
                      /\ IF continuationToken' # << >>
                           THEN UNCHANGED << upc, fileIdx, uploaded, skipped >>
                           ELSE /\ upc' = "loop"
                                /\ fileIdx' = 1
                                /\ uploaded' = 0
                                /\ skipped' = 0
                      /\ UNCHANGED << pc, exitCode, errorMessage, failedStep >>
    /\ UNCHANGED << runVars, race, chat, bucketAnswers, CONFIG, lastError, mainVars, pollVars, bucket, localFiles,
                    puts, notice >>

\* One iteration of the for loop (lines 118-133); after the last file the
\* function reports the counters and returns (line 135).
uploadFile ==
    /\ pc = "uploadDocuments"
    /\ upc = "loop"
    /\ fileIdx <= Len(localFiles)
    /\ LET key == normalizeKey(localFiles[fileIdx])
           last == fileIdx = Len(localFiles)
           advance == /\ fileIdx' = fileIdx + 1
                      /\ IF last
                           THEN /\ pc' = "startIngestionJob"
                                /\ upc' = "idle"
                                /\ notice' = "complete"
                           ELSE UNCHANGED << pc, upc, notice >>
                      /\ UNCHANGED << exitCode, errorMessage, failedStep >>
       IN  IF existingKeysHas(existingKeys, key)
             THEN /\ skipped' = skipped + 1
                  /\ advance
                  /\ UNCHANGED << uploaded, puts, calls, bucket >>
             ELSE \E readResp \in {"ok", "EIO"}, putResp \in {"ok", OtherError} :
                    IF readResp # "ok"
                      THEN /\ mainCatch("uploadDocuments", readResp)
                           /\ UNCHANGED << fileIdx, upc, notice, uploaded, skipped,
                                           puts, calls, bucket >>
                      ELSE /\ calls' = Append(calls, "PutObject")
                           /\ puts' = Append(puts, key)
                           /\ IF putResp # "ok"
                                THEN /\ mainCatch("uploadDocuments", putResp)
                                     /\ UNCHANGED << fileIdx, upc, notice, uploaded,
                                                     skipped, bucket >>
                                ELSE /\ bucket' = bucket \cup {key}
                                     /\ uploaded' = uploaded + 1
                                     /\ advance
                                     /\ UNCHANGED skipped
    /\ UNCHANGED << runVars, race, chat, bucketAnswers, CONFIG, lastError, mainVars, pollVars, localFiles,
                    existingKeys, continuationToken >>

-----------------------------------------------------------------------------
(* main's step 8 and the summary (lines 337-366, 412-436).                 *)

startIngestionJob ==
    /\ pc = "startIngestionJob"
    /\ calls' = Append(calls, "StartIngestionJob")
    /\ \E resp \in {"ok", OtherError} :
         IF resp = "ok"
           THEN /\ pc' = "done"
                /\ exitCode' = 0
                /\ UNCHANGED << errorMessage, failedStep >>
           ELSE mainCatch("startIngestionJob", resp)
    /\ UNCHANGED << runVars, race, chat, bucketAnswers, CONFIG, lastError, mainVars, pollVars, bucket, uploadVars >>

-----------------------------------------------------------------------------
(* The upload script (README lines 386-412).                               *)

\* main of the upload script up to the call of uploadDocuments (lines
\* 386-402): print the configuration, validate the three identifiers.
uploadMain ==
    /\ pc = "uploadMain"
    /\ IF \/ isMissing(CONFIG.s3BucketName)
          \/ isMissing(CONFIG.knowledgeBaseId)
          \/ isMissing(CONFIG.dataSourceId)
         THEN /\ pc' = "exit"
              /\ exitCode' = 1
              /\ errorMessage' =
                   "S3_BUCKET_NAME, KB_ID and DATA_SOURCE_ID environment variables are required"
              /\ failedStep' = "uploadMain"
         ELSE /\ pc' = "uploadDocuments"
              /\ UNCHANGED << exitCode, errorMessage, failedStep >>
    /\ UNCHANGED << runVars, race, chat, bucketAnswers, CONFIG, lastError, mainVars, calls,
                    pollVars, bucket, uploadVars >>

\* The operator runs the upload script again (README line 412, main()): a new
\* process with the same configuration, on the bucket as the earlier runs
\* left it.  A tree is remembered once uploadDocuments has returned for it.
rerun ==
    /\ script = "upload"
    /\ pc \in {"done", "exit"}
    /\ run < MaxRuns
    /\ run' = run + 1
    /\ completedTrees' =
         IF notice \in {"noop", "complete"}
           THEN completedTrees \cup { { localFiles[i] : i \in DOMAIN localFiles } }
           ELSE completedTrees
    /\ pc' = "uploadMain"
    /\ exitCode' = -1
    /\ errorMessage' = ""
    /\ failedStep' = ""
    /\ calls' = << >>
    /\ localFiles' = << >>
    /\ existingKeys' = {}
    /\ continuationToken' = << >>
    /\ upc' = "idle"
    /\ fileIdx' = 0
    /\ uploaded' = 0
    /\ skipped' = 0
    /\ puts' = << >>
    /\ notice' = ""
    /\ UNCHANGED << script, chat, race, bucketAnswers, CONFIG, lastError, mainVars, pollVars, bucket >>

Next ==
    \/ main
    \/ createDocumentsBucket
    \/ createVectorsBucket
    \/ createVectorIndex
    \/ createKnowledgeBase
    \/ waitForKnowledgeBase
    \/ waitSleep
    \/ createDataSource
    \/ uploadDocuments
    \/ getExistingKeys
    \/ uploadFile
    \/ startIngestionJob
    \/ uploadMain
    \/ rerun

Spec == Init /\ [][Next]_vars

\* The poller's awaits resolve: each query is answered and each 10 s timer
\* fires (lines 304, 320, 328).
PollerSpec == Spec /\ WF_vars(waitForKnowledgeBase) /\ WF_vars(waitSleep)

-----------------------------------------------------------------------------
(* The chat route (src/app/api/chat/route.ts).  Texts are sequences of      *)
(* characters.  The model, the embedding model and the vector index are     *)
(* external: their answers are inputs.                                      *)

\* The request bodies told apart: not JSON (req.json() rejects, line 79); JSON
\* without a messages array (convertToModelMessages throws, line 82); a body
\* with UI messages.
Bodies == {"notJson", "noMessages", "wellFormed"}
IndexArnEnv == {"", "arn:vb/kb-vectors/index/kb-index"}

\* topK of the QueryCommand (line 60): the index answers with at most topK
\* vectors.
topK == 5
\* stepCountIs(5) (line 100).
maxSteps == 5

\* The vectors of a query response: without metadata, with metadata that has
\* no AMAZON_BEDROCK_TEXT, or with a text.
NoMetadata == [metadata |-> FALSE, hasText |-> FALSE, text |-> << >>]
NoText == [metadata |-> TRUE, hasText |-> FALSE, text |-> << >>]
Vectors ==
    { NoMetadata, NoText,
      [metadata |-> TRUE, hasText |-> TRUE, text |-> << "p" >>],
      [metadata |-> TRUE, hasText |-> TRUE, text |-> << "q", "r" >>] }
QueryResults == UNION { [1..n -> Vectors] : n \in 0..topK }

\* The body of the try block of POST up to streamText (lines 79-82): "" when
\* nothing is thrown, else the message of the error thrown.
requestError(body) ==
    CASE body = "notJson" -> "Unexpected token in JSON"
      [] body = "noMessages" -> "messages is not iterable"
      [] OTHER -> ""

\* A catch that answers without the details field.
catchResponse_noDetails(message) ==
    [status |-> 500, error |-> "Failed to process chat request"]

\* The Response of POST's catch block (lines 104-116).
catchResponse(message) ==
    [status |-> 500, error |-> "Failed to process chat request", details |-> message]

\* result.toUIMessageStreamResponse() (line 103): the streaming response.
toUIMessageStreamResponse == [status |-> 200, stream |-> TRUE]

\* POST up to its return (lines 77-117).  streamText is not awaited: it
\* returns its result at once and the model is called while the response
\* streams.
POST ==
    /\ chat.hpc = "POST"
    /\ chat' =
         IF requestError(chat.body) # ""
           THEN [chat EXCEPT !.hpc = "returned",
                             !.response = catchResponse(requestError(chat.body))]
           ELSE [chat EXCEPT !.hpc = "model",
                             !.response = toUIMessageStreamResponse]
    /\ UNCHANGED << runVars, race, bucketAnswers, CONFIG, pc, exitCode, errorMessage, failedStep,
                    lastError, mainVars, calls, pollVars, bucket, uploadVars >>

\* result.metadata?.AMAZON_BEDROCK_TEXT || "" (line 68).
vectorText(v) == IF v.metadata /\ v.hasText THEN v.text ELSE << >>

separator == << "\n", "\n", "-", "-", "-", "\n", "\n" >>

RECURSIVE join_commas(_)
\* Array.prototype.join with its default separator.
join_commas(texts) ==
    IF Len(texts) = 0 THEN << >>
    ELSE IF Len(texts) = 1 THEN texts[1]
    ELSE texts[1] \o << "," >> \o join_commas(Tail(texts))

RECURSIVE join(_)
\* .join("\n\n---\n\n") (line 68).
join(texts) ==
    IF Len(texts) = 0 THEN << >>
    ELSE IF Len(texts) = 1 THEN texts[1]
    ELSE texts[1] \o separator \o join(Tail(texts))

\* A catch block that logs and throws the error on.
retrievalCatch_rethrows(embed, query) ==
    [threw |-> TRUE, content |-> << >>, embedCalls |-> embed, queryCalls |-> query,
     path |-> "threw"]

\* The catch block of findRelevantContent (lines 71-74).
retrievalCatch(embed, query) ==
    [threw |-> FALSE, content |-> << >>, embedCalls |-> embed, queryCalls |-> query,
     path |-> "failed"]

\* !indexArn (line 45).
indexArnUnset(arn) == arn = ""

\* findRelevantContent (lines 42-75).  embedResp is the answer to the
\* InvokeModelCommand of generateEmbedding (an error also stands for a body
\* that does not parse, line 37), queryResp the answer to the QueryCommand,
\* "noVectors" a response without vectors (line 66).
findRelevantContent(arn, embedResp, queryResp, results) ==
    IF indexArnUnset(arn)
      THEN [threw |-> FALSE, content |-> << >>, embedCalls |-> 0, queryCalls |-> 0,
            path |-> "unconfigured"]
    ELSE IF embedResp # "ok" THEN retrievalCatch(1, 0)
    ELSE IF queryResp = "error" THEN retrievalCatch(1, 1)
    ELSE LET vectors == IF queryResp = "noVectors" THEN << >> ELSE results
         IN  [threw |-> FALSE,
              content |-> join([i \in DOMAIN vectors |-> vectorText(vectors[i])]),
              embedCalls |-> 1, queryCalls |-> 1, path |-> "ok"]

\* A stop condition that lets one more step run.
stopWhen_oneMore(stepCount) == stepCount = maxSteps + 1

\* stopWhen: stepCountIs(5) (line 100).
stopWhen(stepCount) == stepCount = maxSteps

\* streamText calls the model for the next step (lines 85-101).  The model
\* answers with an error, which is written to the stream, with text, which
\* ends the generation, or with a call of getInformation.  What the previous
\* tool call returned went into the model's messages.
streamText ==
    /\ chat.hpc = "model"
    /\ \E resp \in {"error", "text", "toolCall"} :
         chat' =
           CASE resp = "error" ->
                  [chat EXCEPT !.modelCalls = @ + 1, !.hpc = "finished",
                               !.streamError = TRUE,
                               !.results = << >>, !.content = << >>, !.toolPath = ""]
             [] resp = "text" ->
                  [chat EXCEPT !.modelCalls = @ + 1, !.hpc = "finished",
                               !.steps = @ + 1,
                               !.results = << >>, !.content = << >>, !.toolPath = ""]
             [] resp = "toolCall" ->
                  [chat EXCEPT !.modelCalls = @ + 1, !.hpc = "tool",
                               !.results = << >>, !.content = << >>, !.toolPath = ""]
    /\ UNCHANGED << runVars, race, bucketAnswers, CONFIG, pc, exitCode, errorMessage, failedStep,
                    lastError, mainVars, calls, pollVars, bucket, uploadVars >>

\* execute of the getInformation tool (line 97) and the end of the step: the
\* step is counted and, unless the stop condition holds, streamText goes on
\* with the next step.
getInformation ==
    /\ chat.hpc = "tool"
    /\ \E embedResp \in {"ok", "error"}, queryResp \in {"ok", "noVectors", "error"},
          results \in QueryResults :
         LET r == findRelevantContent(chat.indexArn, embedResp, queryResp, results)
         IN  chat' = [chat EXCEPT
                        !.embedCalls = @ + r.embedCalls,
                        !.queryCalls = @ + r.queryCalls,
                        !.results = IF r.path = "ok" /\ queryResp = "ok" THEN results ELSE << >>,
                        !.content = r.content,
                        !.toolPath = r.path,
                        !.steps = @ + 1,
                        !.hpc = IF stopWhen(chat.steps + 1) THEN "finished" ELSE "model"]
    /\ UNCHANGED << runVars, race, bucketAnswers, CONFIG, pc, exitCode, errorMessage, failedStep,
                    lastError, mainVars, calls, pollVars, bucket, uploadVars >>

\* The route receives one request.
ChatInit ==
    /\ script = "chat"
    /\ CONFIG = [region |-> "us-east-1"]
    /\ pc = "serve"
    /\ bucket = {}
    /\ ProcessStart
    /\ \E arn \in IndexArnEnv, body \in Bodies :
         chat = [ChatIdle EXCEPT !.indexArn = arn, !.body = body, !.hpc = "POST"]
    /\ race = RaceIdle

ChatNext ==
    \/ POST
    \/ streamText
    \/ getInformation

ChatSpec == ChatInit /\ [][ChatNext]_vars

-----------------------------------------------------------------------------
(* Properties of the activation poller.                                    *)

InPoller == pc = "waitForKnowledgeBase"
PollerThrew == pc = "exit" /\ failedStep = "waitForKnowledgeBase"
PollerReturned == pc = "createDataSource"
\* Every answer so far was a non-terminal status.
OnlyNonTerminal == queries > 0 /\ ~sawFailed /\ ~sawError /\ status \in {"CREATING", "UNKNOWN"}
\* The step sends a status query and the query raises.
QueryRaises == InPoller /\ wpc = "query" /\ queries' = queries + 1 /\ status' = QueryRaised

\* C1: whenever a status query has answered FAILED, the poller has aborted
\* at once with the terminal failure error: it is not sleeping, it will not
\* query again and no further attempt is consumed.
C1_FailedAbortsAtOnce ==
    status = "FAILED" =>
        /\ PollerThrew
        /\ errorMessage = FailedMessage
        /\ wpc = "idle"

\* C3: when the poller ends with an error and no query ever answered FAILED
\* (the budget ran out on non-terminal answers and raised queries), the
\* error handed to the caller is the timeout error.
C3_ExhaustionIsTimeout ==
    (PollerThrew /\ ~sawFailed) => errorMessage = TimeoutMessage

\* C4: the two fatal outcomes of the poller are faithful: the timeout error
\* is reported only if no query answered FAILED, and the terminal-failure
\* error only if a query answered FAILED and the run was not reported as a
\* timeout.
C4_OutcomesFaithful ==
    PollerThrew =>
        /\ (errorMessage = TimeoutMessage => ~sawFailed)
        /\ (errorMessage = FailedMessage =>
                /\ sawFailed
                /\ CatchTimeoutMessage \notin spinnerStops
                /\ TimeoutMessage \notin spinnerStops)

\* C5: for every n in 1..30, when n-1 non-terminal answers are followed by
\* ACTIVE at the n-th query, the poller has returned success with exactly n
\* queries sent; while only non-terminal answers came and fewer than 30
\* queries were sent the poller goes on to the next query; and no status
\* query is sent once the poller is left.
C5_ActiveAtNthState ==
    (~sawFailed /\ ~sawError /\ status = "ACTIVE") =>
        /\ PollerReturned
        /\ exitCode = -1
        /\ queries = attempts + 1
        /\ queries \in 1..maxAttempts
C5_ReachesNthQuery ==
    (InPoller /\ wpc = "sleep" /\ OnlyNonTerminal /\ queries < maxAttempts)
        => (InPoller' /\ wpc' = "query")
C5_NoQueryAfterwards == (~InPoller) => (queries' <= queries)
C5_ActiveAtNth ==
    /\ []C5_ActiveAtNthState
    /\ [][C5_ReachesNthQuery]_vars
    /\ [][C5_NoQueryAfterwards]_vars
C5_Witness ==
    /\ PollerReturned /\ status = "ACTIVE"
    /\ ~sawFailed /\ ~sawError
    /\ queries = maxAttempts

\* C6: when the first 30 queries all answered a non-terminal status, no 31st
\* query is ever sent: the poller is in its last sleep or has failed with
\* the timeout error, and the step that ends that sleep throws the timeout.
C6_ThirtyNonTerminalState ==
    /\ queries <= maxAttempts
    /\ (OnlyNonTerminal /\ queries = maxAttempts) =>
          \/ InPoller /\ wpc = "sleep"
          \/ PollerThrew /\ errorMessage = TimeoutMessage /\ exitCode = 1
C6_TimeoutAfterLastSleep ==
    (InPoller /\ wpc = "sleep" /\ OnlyNonTerminal /\ queries = maxAttempts)
        => (PollerThrew' /\ errorMessage' = TimeoutMessage /\ queries' = queries)
C6_TimeoutAfterThirty ==
    /\ []C6_ThirtyNonTerminalState
    /\ [][C6_TimeoutAfterLastSleep]_vars
C6_Witness ==
    /\ PollerThrew /\ errorMessage = TimeoutMessage
    /\ OnlyNonTerminal /\ queries = maxAttempts /\ sleeps = maxAttempts

\* C7: a status query that raises at one of the checks 1..29 does not end
\* the poller: nothing reaches the caller, exactly one attempt is consumed
\* and the poller sleeps; after a sleep within the budget it queries again;
\* and an ACTIVE answer yields success whatever was raised before.
C7_ErrorSwallowed ==
    (QueryRaises /\ attempts < maxAttempts - 1) =>
        /\ InPoller' /\ wpc' = "sleep"
        /\ attempts' = attempts + 1
        /\ exitCode' = -1 /\ errorMessage' = "" /\ failedStep' = ""
C7_SleepThenQuery ==
    (InPoller /\ wpc = "sleep" /\ attempts < maxAttempts) => (InPoller' /\ wpc' = "query")
C7_ActiveIsSuccess == status = "ACTIVE" => (PollerReturned /\ exitCode = -1)
C7_TransientErrorRetried ==
    /\ [][C7_ErrorSwallowed]_vars
    /\ [][C7_SleepThenQuery]_vars
    /\ []C7_ActiveIsSuccess
C7_Witness == sawError /\ status = "ACTIVE" /\ PollerReturned /\ attempts > 1

-----------------------------------------------------------------------------
(* Properties of the creation steps.                                       *)

\* C2: after the vector service answered "vector bucket already exists",
\* createVectorsBucket has returned an ARN without raising and main is at
\* the index creation.
C2_VectorBucketAdopted ==
    lastError = VectorBucketAlreadyExists =>
        /\ pc = "createVectorIndex"
        /\ exitCode = -1
        /\ vectorBucketArn \in VectorBucketArns

\* C8: every creation step adopts an existing resource; in particular the
\* setup never aborts at the knowledge base or the data source on an
\* "already exists" answer.
C8_KnowledgeBaseAndDataSourceAdopted ==
    (pc = "exit" /\ failedStep \in {"createKnowledgeBase", "createDataSource"})
        => ~IsAlreadyExists(lastError)

\* vectorBucketArn + "/index/" + indexName, written out for the modelled names.
ExpectedIndexArn(vbArn, name) ==
    CASE vbArn = "arn:vb/kb-vectors" /\ name = "kb-index" -> "arn:vb/kb-vectors/index/kb-index"
      [] vbArn = "arn:vb/kb-vectors" /\ name = "idx" -> "arn:vb/kb-vectors/index/idx"
      [] vbArn = "arn:vb2/kb-vectors" /\ name = "kb-index" -> "arn:vb2/kb-vectors/index/kb-index"
      [] vbArn = "arn:vb2/kb-vectors" /\ name = "idx" -> "arn:vb2/kb-vectors/index/idx"

\* C9: after "index already exists", createVectorIndex has returned without
\* error the ARN vectorBucketArn + "/index/" + indexName, and CreateIndex is
\* the last service call sent: nothing was sent to fetch the ARN.
C9_IndexArnReconstructed ==
    lastError = IndexAlreadyExists =>
        /\ pc = "createKnowledgeBase"
        /\ exitCode = -1 /\ errorMessage = ""
        /\ indexArn = ExpectedIndexArn(vectorBucketArn, CONFIG.indexName)
        /\ calls[Len(calls)] = "CreateIndex"
        /\ calls[Len(calls) - 1] = "CreateVectorBucket"
C9_Witness ==
    /\ lastError = IndexAlreadyExists
    /\ pc = "createKnowledgeBase"
    /\ indexArn = "arn:vb2/kb-vectors/index/idx"

\* C10: createDocumentsBucket on a bucket that already exists
\* (BucketAlreadyOwnedByYou) does not raise, and main goes on to the vector
\* bucket with the bucket name passed in, as it does after a fresh create.
C10_ExistingBucketSameName ==
    /\ lastError = BucketAlreadyOwnedByYou =>
          (pc = "createVectorsBucket" /\ exitCode = -1 /\ errorMessage = "")
    /\ pc = "createVectorsBucket" =>
          (s3BucketName = CONFIG.s3BucketName /\ s3BucketName \in BucketNames)
C10_Witness ==
    /\ lastError = BucketAlreadyOwnedByYou
    /\ pc = "createVectorsBucket"
    /\ s3BucketName = "my-docs"

-----------------------------------------------------------------------------
(* Properties of the setup flow as a whole.                                *)

Setup == script = "setup"
CreationSteps == { "createDocumentsBucket", "createVectorsBucket", "createVectorIndex",
                   "createKnowledgeBase", "createDataSource" }
\* The service commands in the order main's steps send them.
CallOrder == << "CreateBucket", "HeadBucket", "CreateVectorBucket", "CreateIndex",
                "CreateKnowledgeBase", "CreateDataSource", "ListObjectsV2",
                "PutObject", "StartIngestionJob" >>
Rank(call) == CHOOSE r \in DOMAIN CallOrder : CallOrder[r] = call
\* The last command a creation step can have sent.
LastCallOf(step) ==
    CASE step = "createDocumentsBucket" -> "HeadBucket"
      [] step = "createVectorsBucket" -> "CreateVectorBucket"
      [] step = "createVectorIndex" -> "CreateIndex"
      [] step = "createKnowledgeBase" -> "CreateKnowledgeBase"
      [] step = "createDataSource" -> "CreateDataSource"
Sent(call) == \E i \in DOMAIN calls : calls[i] = call
\* The step appends the command to the calls.
Sends(call) == Len(calls') = Len(calls) + 1 /\ calls'[Len(calls')] = call

\* C11 as stated: createDocumentsBucket has returned successfully only if
\* the existence wait reported the bucket as existing, and a failed wait
\* ends the setup at that step.
C11_SuccessOnlyAfterWait ==
    /\ s3BucketName # "" => bucketAnswers.wait = "ok"
    /\ bucketAnswers.wait = "TimeoutError" =>
          (pc = "exit" /\ failedStep = "createDocumentsBucket")

\* C11, amended: createDocumentsBucket has returned successfully only if the
\* service reported the bucket as existing: through the existence wait after
\* a successful CreateBucket, or through BucketAlreadyOwnedByYou, after
\* which no wait is made.  When the wait fails or times out the creation
\* fails: the setup exits 1 at that step, and CreateBucket and the wait's
\* HeadBucket are the only commands ever sent.
C11_SuccessOnlyAfterBucketSeen ==
    /\ s3BucketName # "" =>
          \/ bucketAnswers = [create |-> "ok", wait |-> "ok"]
          \/ bucketAnswers = [create |-> BucketAlreadyOwnedByYou, wait |-> ""]
    /\ (bucketAnswers.create = "ok" /\ bucketAnswers.wait # "ok") =>
          /\ pc = "exit" /\ exitCode = 1
          /\ failedStep = "createDocumentsBucket"
          /\ s3BucketName = ""
          /\ calls = << "CreateBucket", "HeadBucket" >>
          /\ queries = 0 /\ puts = << >>
C11_Witness ==
    /\ pc = "createVectorsBucket"
    /\ s3BucketName = "my-docs"
    /\ bucketAnswers = [create |-> "ok", wait |-> "ok"]

\* C12: once a creation step was rejected with an error other than "already
\* exists", the setup has exited with status 1 at that step; no command of a
\* later step, no status query of a later poll and no put was sent, and
\* nothing is sent after the exit.
FatalCreationError == Setup /\ lastError # "" /\ ~IsAlreadyExists(lastError)
C12_FatalState ==
    FatalCreationError =>
        /\ pc = "exit" /\ exitCode = 1
        /\ failedStep \in CreationSteps
        /\ errorMessage = lastError
        /\ \A i \in DOMAIN calls : Rank(calls[i]) <= Rank(LastCallOf(failedStep))
        /\ calls[Len(calls)] \in {LastCallOf(failedStep), "CreateBucket"}
        /\ wpc = "idle" /\ puts = << >>
        /\ failedStep # "createDataSource" => queries = 0
C12_NothingAfterExit ==
    (Setup /\ pc = "exit") =>
        (pc' = "exit" /\ calls' = calls /\ queries' = queries /\ puts' = puts)
C12_OtherErrorFatal ==
    /\ []C12_FatalState
    /\ [][C12_NothingAfterExit]_vars
C12_Witness ==
    /\ Setup /\ pc = "exit" /\ exitCode = 1
    /\ failedStep = "createDataSource" /\ lastError = OtherError

\* C13: the setup sends its commands in the order documents bucket, vector
\* bucket, vector index, knowledge base, status queries, data source,
\* listing, puts, ingestion; a step's command is sent only when the step
\* before it has delivered its result; CreateDataSource is sent only when
\* the last status query answered ACTIVE; StartIngestionJob is sent only
\* when uploadDocuments has returned.
C13_OrderState ==
    Setup =>
        /\ \A i, j \in DOMAIN calls :
              i < j => /\ Rank(calls[i]) <= Rank(calls[j])
                       /\ Rank(calls[i]) = Rank(calls[j])
                            => calls[i] \in {"ListObjectsV2", "PutObject"}
        /\ Sent("CreateVectorBucket") => (Sent("CreateBucket") /\ s3BucketName # "")
        /\ Sent("CreateIndex") => (Sent("CreateVectorBucket") /\ vectorBucketArn # "")
        /\ Sent("CreateKnowledgeBase") => (Sent("CreateIndex") /\ indexArn # "")
        /\ queries > 0 => /\ Sent("CreateKnowledgeBase") /\ knowledgeBaseId # ""
                          /\ ~Sent("CreateDataSource")
        /\ Sent("CreateDataSource") => (Sent("CreateKnowledgeBase") /\ knowledgeBaseId # "")
        /\ (Sent("ListObjectsV2") \/ Sent("PutObject") \/ localFiles # << >>)
              => (Sent("CreateDataSource") /\ dataSourceId # "")
        /\ Sent("StartIngestionJob") =>
              (Sent("CreateDataSource") /\ dataSourceId # "" /\ notice \in {"noop", "complete"})
C13_OrderStep ==
    Setup =>
        /\ Sends("CreateDataSource") => (status = "ACTIVE" /\ queries > 0)
        /\ Sends("StartIngestionJob") => (upc = "idle" /\ notice \in {"noop", "complete"})
        /\ queries' > queries => Sent("CreateKnowledgeBase")
C13_FixedOrder ==
    /\ []C13_OrderState
    /\ [][C13_OrderStep]_vars
C13_Witness ==
    /\ Setup /\ pc = "done" /\ exitCode = 0
    /\ Len(puts) = 2
    /\ Len(calls) >= 9

-----------------------------------------------------------------------------
(* Properties of the start-up validation and of uploadDocuments.           *)

\* C14: when the execution role ARN is missing in the setup script, or one
\* of bucket name, knowledge-base id and data-source id is missing in the
\* upload script, the process goes from its start straight to exit status 1,
\* and no command, status query or put is ever sent.
MissingRequired ==
    IF Setup
      THEN CONFIG.roleArn = ""
      ELSE "" \in {CONFIG.s3BucketName, CONFIG.knowledgeBaseId, CONFIG.dataSourceId}
AtStart == pc \in {"main", "uploadMain"}
C14_NoCallState ==
    MissingRequired =>
        /\ AtStart \/ pc = "exit"
        /\ calls = << >> /\ queries = 0 /\ puts = << >>
        /\ localFiles = << >>
        /\ pc = "exit" => (exitCode = 1 /\ failedStep \in {"main", "uploadMain"})
C14_ExitStep ==
    (MissingRequired /\ AtStart /\ pc' # pc) => (pc' = "exit" /\ exitCode' = 1)
C14_MissingConfigExitsBeforeCalls ==
    /\ []C14_NoCallState
    /\ [][C14_ExitStep]_vars
C14_Witness ==
    /\ script = "upload"
    /\ CONFIG = [s3BucketName |-> "my-docs", knowledgeBaseId |-> "", dataSourceId |-> "DS1"]
    /\ pc = "exit" /\ exitCode = 1
    /\ calls = << >>

\* The key of a local path: the path with "/" as its separator.
ExpectedKey(path) ==
    CASE path = << "a" >> -> << "a" >>
      [] path = << "d", "/", "b" >> -> << "d", "/", "b" >>
      [] path = << "d", "\\", "b" >> -> << "d", "/", "b" >>
LocalKeys == { ExpectedKey(localFiles[i]) : i \in DOMAIN localFiles }
PutKeys == { puts[i] : i \in DOMAIN puts }
UploadReturned == notice = "complete"

\* C15: when uploadDocuments has returned after its loop, the keys it sent
\* puts for are exactly the local keys that the listing did not contain; at
\* no time is a put sent for a key of the listing.
C15_PutsExactlyMissingKeys ==
    /\ UploadReturned => PutKeys = LocalKeys \ existingKeys
    /\ PutKeys \cap existingKeys = {}
C15_Witness ==
    /\ UploadReturned
    /\ existingKeys = { << "a" >> }
    /\ localFiles = << << "a" >>, << "d", "\\", "b" >> >>
    /\ puts = << << "d", "/", "b" >> >>

\* C16: in a later run of the upload script whose local tree is one an
\* earlier run's uploadDocuments returned for, no put is sent.
SameTreeAgain ==
    /\ run > 1
    /\ localFiles # << >>
    /\ { localFiles[i] : i \in DOMAIN localFiles } \in completedTrees
C16_RerunPutsNothing ==
    SameTreeAgain => (puts = << >> /\ ~Sent("PutObject") /\ uploaded = 0)
C16_Witness ==
    /\ SameTreeAgain
    /\ UploadReturned
    /\ Len(localFiles) = 2
    /\ skipped = 2

\* C17: when uploadDocuments has returned after its loop, uploaded is the
\* number of puts sent and the number of local files whose key the listing
\* lacked, skipped is the number of local files whose key the listing held,
\* and the two add up to the number of local files.
AbsentFiles == { i \in DOMAIN localFiles : ExpectedKey(localFiles[i]) \notin existingKeys }
PresentFiles == { i \in DOMAIN localFiles : ExpectedKey(localFiles[i]) \in existingKeys }
C17_CountersMatch ==
    UploadReturned =>
        /\ uploaded = Len(puts)
        /\ uploaded = Cardinality(AbsentFiles)
        /\ skipped = Cardinality(PresentFiles)
        /\ uploaded + skipped = Len(localFiles)
        /\ LocalKeys \subseteq existingKeys =>
              (uploaded = 0 /\ skipped = Len(localFiles) /\ puts = << >>)
        /\ existingKeys = {} =>
              (uploaded = Len(localFiles) /\ skipped = 0 /\ Len(puts) = Len(localFiles))
C17_Witness ==
    /\ UploadReturned
    /\ existingKeys = {}
    /\ Len(localFiles) = 2
    /\ uploaded = 2 /\ skipped = 0 /\ Len(puts) = 2

\* C18: when the documents directory holds no file, uploadDocuments reports
\* the no-op and returns to its caller without having sent a listing request
\* or a put, whatever the bucket holds; it goes on to the listing only with
\* at least one local file.
C18_EmptyDirectoryNoOp ==
    /\ notice = "noop" =>
          /\ localFiles = << >>
          /\ puts = << >>
          /\ ~Sent("PutObject") /\ ~Sent("ListObjectsV2")
          /\ upc = "idle"
          /\ failedStep # "uploadDocuments"
          /\ pc \in {"startIngestionJob", "done", "exit"}
    /\ upc \in {"list", "loop"} => localFiles # << >>
    /\ UploadReturned => localFiles # << >>
C18_Witness ==
    /\ notice = "noop"
    /\ pc = "startIngestionJob"
    /\ bucket = RemoteKeys
    /\ puts = << >>

\* C19: while getExistingKeys lists, the keys collected and the keys the
\* continuation token still stands for partition the bucket, and every
\* answered request but one for an empty bucket adds keys not collected
\* before; when it has returned no token remains, the keys returned are
\* exactly the bucket's keys at listing time, and it has sent one request
\* per page.
ListCalls == Cardinality({ i \in DOMAIN calls : calls[i] = "ListObjectsV2" })
Remaining == IF continuationToken = << >> THEN {} ELSE continuationToken[1]
ListingReturned == upc = "loop" \/ UploadReturned
C19_ListingState ==
    /\ (upc = "list" /\ continuationToken = << >>) => existingKeys = {}
    /\ (upc = "list" /\ continuationToken # << >>) =>
          /\ Remaining # {}
          /\ existingKeys # {}
          /\ existingKeys \cup Remaining = bucket
          /\ existingKeys \cap Remaining = {}
          /\ ListCalls >= 1
          /\ ListCalls <= Cardinality(existingKeys) + (IF pc = "exit" THEN 1 ELSE 0)
    /\ ListingReturned =>
          /\ continuationToken = << >>
          /\ existingKeys = bucket \ PutKeys
          /\ ListCalls >= 1
          /\ ListCalls <= IF existingKeys = {} THEN 1 ELSE Cardinality(existingKeys)
          /\ ListCalls * PageSize >= Cardinality(existingKeys)
C19_PageStep ==
    (Sends("ListObjectsV2") /\ pc' # "exit") =>
        /\ existingKeys \subseteq existingKeys'
        /\ Cardinality(existingKeys' \ existingKeys) <= PageSize
        /\ bucket # existingKeys => existingKeys' # existingKeys
        /\ continuationToken # << >> =>
              (existingKeys' \ existingKeys) \subseteq continuationToken[1]
        /\ (upc' = "loop") = (existingKeys' = bucket)
C19_PaginatesToCompletion ==
    /\ []C19_ListingState
    /\ [][C19_PageStep]_vars
C19_Witness ==
    /\ upc = "loop"
    /\ continuationToken = << >>
    /\ existingKeys = RemoteKeys
    /\ ListCalls = 2
    /\ puts = << >>

\* C20: when reading or putting a file has failed, the process has exited
\* with status 1 on that error, StartIngestionJob was not sent, the puts
\* sent are those of the files before the failed one plus at most the failed
\* put itself, and nothing more is sent in that run.
UploadFailed == pc = "exit" /\ failedStep = "uploadDocuments"
FileFailed == UploadFailed /\ upc = "loop"
C20_FailedState ==
    /\ UploadFailed =>
          /\ exitCode = 1
          /\ errorMessage \in {"EACCES", "EIO", OtherError}
          /\ ~Sent("StartIngestionJob")
          /\ notice = ""
    /\ FileFailed =>
          /\ errorMessage \in {"EIO", OtherError}
          /\ fileIdx \in DOMAIN localFiles
          /\ uploaded + skipped = fileIdx - 1
          /\ errorMessage = "EIO" => Len(puts) = uploaded
          /\ errorMessage = OtherError =>
                /\ Len(puts) = uploaded + 1
                /\ puts[Len(puts)] = ExpectedKey(localFiles[fileIdx])
                /\ \A i \in 1..(Len(puts) - 1) :
                      \E j \in 1..(fileIdx - 1) : ExpectedKey(localFiles[j]) = puts[i]
C20_NothingAfterFailure ==
    UploadFailed =>
        \/ pc' = "exit" /\ puts' = puts /\ calls' = calls
        \/ run' = run + 1
C20_UploadFailsFast ==
    /\ []C20_FailedState
    /\ [][C20_NothingAfterFailure]_vars
C20_Witness ==
    /\ FileFailed
    /\ errorMessage = OtherError
    /\ Len(localFiles) = 2
    /\ fileIdx = 1
    /\ Len(puts) = 1
    /\ exitCode = 1

\* C21: when uploadDocuments has returned after its loop, every key the
\* listing lacked was put once for each local path that normalises to it
\* (twice when two paths share the key) and each of those puts was counted
\* as uploaded; a put leaves the listing snapshot as it was.
FilesWithKey(key) == { i \in DOMAIN localFiles : ExpectedKey(localFiles[i]) = key }
PutsOfKey(key) == { i \in DOMAIN puts : puts[i] = key }
SharedKey(key) == Cardinality(FilesWithKey(key)) >= 2 /\ key \notin existingKeys
C21_EveryPathPutState ==
    UploadReturned =>
        /\ \A key \in LocalKeys \ existingKeys :
              Cardinality(PutsOfKey(key)) = Cardinality(FilesWithKey(key))
        /\ \A key \in LocalKeys :
              SharedKey(key) => (Cardinality(PutsOfKey(key)) >= 2 /\ uploaded >= 2)
C21_SnapshotKeptStep == Sends("PutObject") => existingKeys' = existingKeys
C21_DuplicateKeyPutTwice ==
    /\ []C21_EveryPathPutState
    /\ [][C21_SnapshotKeptStep]_vars
C21_Witness ==
    /\ UploadReturned
    /\ SharedKey(<< "d", "/", "b" >>)
    /\ puts = << << "d", "/", "b" >>, << "d", "/", "b" >> >>
    /\ uploaded = 2 /\ skipped = 0

\* C27: whatever the service answers to the status queries (non-terminal
\* statuses, FAILED, errors, in any order), waitForKnowledgeBase sends at
\* most 30 queries and, every query being answered, leaves the poller: it
\* returns to main or throws to main's catch.
C27_AtMostThirtyQueries ==
    /\ queries <= 30
    /\ InPoller => (queries = attempts /\ sleeps <= attempts /\ (wpc = "query" => attempts < 30))
C27_QueryCountsStep == queries' > queries => (InPoller /\ wpc = "query" /\ queries' = queries + 1)
C27_PollerTerminates ==
    /\ []C27_AtMostThirtyQueries
    /\ [][C27_QueryCountsStep]_vars
    /\ InPoller ~> (PollerReturned \/ PollerThrew)
C27_Witness ==
    /\ PollerThrew
    /\ queries = 30
    /\ sawFailed /\ sawError

-----------------------------------------------------------------------------
(* Two runs of uploadDocuments (lines 102-136; README lines 326-360) over   *)
(* the same local tree and bucket.  Each run has its own locals; the bucket *)
(* is shared and nothing locks it.  The runs' steps interleave at their     *)
(* awaits, or run 2 starts after run 1 has ended (serial).                  *)

Uploaders == {1, 2}
Ended(i) == race.up[i].upc \in {"returned", "failed"}
MayStep(i) == ~Ended(i) /\ (race.serial /\ i = 2 => Ended(1))
raceFrame ==
    UNCHANGED << runVars, chat, bucketAnswers, CONFIG, pc, exitCode, errorMessage,
                 failedStep, lastError, mainVars, calls, pollVars, uploadVars >>

\* uploadDocuments up to the first listing request (lines 103-111).
raceUploadDocuments(i) ==
    /\ MayStep(i)
    /\ race.up[i].upc = "start"
    /\ \E fsResp \in {"ok", "EACCES"} :
         race' = [race EXCEPT !.up[i].upc =
                    IF fsResp # "ok" THEN "failed"
                    ELSE IF noLocalFiles(race.tree) THEN "returned"
                    ELSE "list"]
    /\ UNCHANGED bucket
    /\ raceFrame

\* getExistingKeys (lines 83-100): one ListObjectsV2Command and its answer.
\* The keys the token stands for are those that remained when it was
\* handed out, or those of the bucket as it is now that this run has not
\* collected: the store may or may not show keys put since.
raceGetExistingKeys(i) ==
    /\ MayStep(i)
    /\ race.up[i].upc = "list"
    /\ LET u == race.up[i]
       IN  \E resp \in {"ok", OtherError},
              rest \in IF u.continuationToken = << >>
                         THEN {bucket}
                         ELSE {u.continuationToken[1], bucket \ u.existingKeys} :
             IF resp # "ok"
               THEN race' = [race EXCEPT !.up[i].upc = "failed"]
               ELSE \E page \in SUBSET rest :
                      /\ Cardinality(page) <= PageSize
                      /\ (page = {}) => (rest = {})
                      /\ LET token == nextContinuationToken(rest \ page # {}, rest \ page)
                         IN  race' = [race EXCEPT
                               !.up[i].existingKeys = keysAdd(u.existingKeys, page),
                               !.up[i].continuationToken = token,
                               !.up[i].upc = IF token # << >> THEN "list" ELSE "loop",
                               !.up[i].fileIdx = IF token # << >> THEN 0 ELSE 1]
    /\ UNCHANGED bucket
    /\ raceFrame

\* One iteration of the for loop (lines 118-133); after the last file the
\* function returns (line 135).
raceUploadFile(i) ==
    /\ MayStep(i)
    /\ race.up[i].upc = "loop"
    /\ LET u == race.up[i]
           key == normalizeKey(race.tree[u.fileIdx])
           next == IF u.fileIdx = Len(race.tree) THEN "returned" ELSE "loop"
       IN  IF existingKeysHas(u.existingKeys, key)
             THEN /\ race' = [race EXCEPT !.up[i].skipped = @ + 1,
                                          !.up[i].fileIdx = @ + 1,
                                          !.up[i].upc = next]
                  /\ UNCHANGED bucket
             ELSE \E readResp \in {"ok", "EIO"}, putResp \in {"ok", OtherError} :
                    IF readResp # "ok"
                      THEN /\ race' = [race EXCEPT !.up[i].upc = "failed"]
                           /\ UNCHANGED bucket
                    ELSE IF putResp # "ok"
                      THEN /\ race' = [race EXCEPT !.up[i].puts = Append(@, key),
                                                   !.up[i].upc = "failed"]
                           /\ UNCHANGED bucket
                      ELSE /\ race' = [race EXCEPT !.up[i].puts = Append(@, key),
                                                   !.up[i].uploaded = @ + 1,
                                                   !.up[i].fileIdx = @ + 1,
                                                   !.up[i].upc = next]
                           /\ bucket' = bucket \cup {key}
    /\ raceFrame

\* Two runs are started on a bucket holding R.
RaceInit ==
    /\ script = "race"
    /\ CONFIG \in { c \in UploadConfigSpace : \A f \in DOMAIN c : ~isMissing(c[f]) }
    /\ pc = "uploadDocuments"
    /\ bucket \in SUBSET RemoteKeys
    /\ ProcessStart
    /\ chat = ChatIdle
    /\ \E serial \in BOOLEAN, tree \in LocalTrees :
         race = [RaceIdle EXCEPT !.serial = serial, !.tree = tree, !.R = bucket]

RaceNext ==
    \E i \in Uploaders :
      \/ raceUploadDocuments(i)
      \/ raceGetExistingKeys(i)
      \/ raceUploadFile(i)

RaceSpec == RaceInit /\ [][RaceNext]_vars

-----------------------------------------------------------------------------
(* Properties of the chat route.                                           *)

ToolFellBack == chat.toolPath \in {"unconfigured", "failed"}

\* C22: a getInformation call never throws; with the index ARN unset no
\* request is sent to the embedding model or to the index; a call that found
\* the ARN unset, or whose embedding or query request failed, returned the
\* empty string, left the 200 stream without an error, and the generation
\* went on with the next step unless the step limit was reached.
C22_ToolState ==
    /\ chat.toolPath # "threw"
    /\ chat.indexArn = "" =>
          /\ chat.embedCalls = 0 /\ chat.queryCalls = 0
          /\ chat.toolPath \in {"", "unconfigured"}
    /\ chat.toolPath = "unconfigured" => chat.indexArn = ""
    /\ ToolFellBack =>
          /\ chat.content = << >>
          /\ chat.response.status = 200
          /\ ~chat.streamError
          /\ chat.hpc = (IF chat.steps < 5 THEN "model" ELSE "finished")
C22_ToolStep ==
    chat.hpc = "tool" =>
        /\ chat'.streamError = chat.streamError
        /\ chat'.response = chat.response
        /\ chat'.embedCalls \in {chat.embedCalls, chat.embedCalls + 1}
        /\ chat'.queryCalls \in {chat.queryCalls, chat.queryCalls + 1}
        /\ chat'.queryCalls > chat.queryCalls => chat'.embedCalls > chat.embedCalls
C22_ToolNeverThrows ==
    /\ []C22_ToolState
    /\ [][C22_ToolStep]_vars
C22_Witness ==
    /\ chat.toolPath = "failed"
    /\ chat.embedCalls = 1 /\ chat.queryCalls = 1
    /\ chat.hpc = "model"
    /\ chat.content = << >>

\* The text a vector stands for in the tool's output.
ExpectedText(v) ==
    CASE v = NoMetadata -> << >>
      [] v = NoText -> << >>
      [] v = [metadata |-> TRUE, hasText |-> TRUE, text |-> << "p" >>] -> << "p" >>
      [] v = [metadata |-> TRUE, hasText |-> TRUE, text |-> << "q", "r" >>] -> << "q", "r" >>
TextAt(i) == ExpectedText(chat.results[i])
RECURSIVE StartOf(_)
\* Where the i-th text starts in the output: after the texts before it, each
\* followed by the 7 characters of the separator.
StartOf(i) == IF i = 1 THEN 1 ELSE StartOf(i - 1) + Len(TextAt(i - 1)) + 7
EndOf(i) == StartOf(i) + Len(TextAt(i)) - 1

\* C23: when the query was answered, the tool's output is made of the
\* vectors' texts in the order of the answer (the empty text for a vector
\* without one), any two neighbours separated by exactly "\n\n---\n\n", and
\* nothing else; no vectors give the empty string.
C23_OutputIsJoinedTexts ==
    chat.toolPath = "ok" =>
        LET n == Len(chat.results)
        IN  /\ n = 0 => chat.content = << >>
            /\ n > 0 =>
                  /\ Len(chat.content) = EndOf(n)
                  /\ \A i \in 1..n :
                        SubSeq(chat.content, StartOf(i), EndOf(i)) = TextAt(i)
                  /\ \A i \in 1..(n - 1) :
                        SubSeq(chat.content, EndOf(i) + 1, StartOf(i + 1) - 1)
                          = << "\n", "\n", "-", "-", "-", "\n", "\n" >>
C23_Witness ==
    /\ chat.toolPath = "ok"
    /\ Len(chat.results) = 5
    /\ chat.results[1].text = << "q", "r" >>
    /\ chat.results[2] = NoMetadata
    /\ chat.results[3] = NoText
    /\ chat.results[5].text = << "p" >>
    /\ Len(chat.content) = 31

\* C24: when the model service answered with an error, the response of POST
\* is the 500 JSON response and not the 200 stream.
C24_ModelErrorIs500 ==
    chat.streamError =>
        (chat.response.status = 500 /\ chat.response # toUIMessageStreamResponse)

\* C25: for a body that is not JSON or has no messages POST has returned
\* status 500 with the fields error and details, and no request was sent to
\* the model, the embedding model or the index; for a well-formed body it
\* has returned the 200 stream response.
Malformed == chat.body \in {"notJson", "noMessages"}
POSTReturned == chat.hpc \notin {"idle", "POST"}
C25_MalformedBodyIs500 ==
    POSTReturned =>
        /\ Malformed =>
              /\ chat.hpc = "returned"
              /\ chat.response.status = 500
              /\ {"error", "details"} \subseteq DOMAIN chat.response
              /\ chat.response.error = "Failed to process chat request"
              /\ chat.response.details # ""
              /\ chat.modelCalls = 0 /\ chat.embedCalls = 0 /\ chat.queryCalls = 0
              /\ chat.steps = 0
        /\ chat.body = "wellFormed" =>
              /\ chat.response = [status |-> 200, stream |-> TRUE]
              /\ chat.hpc # "returned"
C25_Witness ==
    /\ chat.body = "notJson"
    /\ chat.hpc = "returned"
    /\ chat.response.status = 500
    /\ chat.indexArn # ""

\* C26: one request goes through at most 5 steps: at most 5 requests to the
\* model and at most 5 rounds of the retrieval tool; after the fifth step
\* the generation has ended.
C26_AtMostFiveSteps ==
    /\ chat.steps <= 5
    /\ chat.modelCalls <= 5
    /\ chat.embedCalls <= 5 /\ chat.queryCalls <= 5
    /\ chat.modelCalls \in {chat.steps, chat.steps + 1}
    /\ chat.steps = 5 => chat.hpc = "finished"
    /\ chat.hpc \in {"model", "tool"} => chat.steps < 5
C26_Witness ==
    /\ chat.steps = 5
    /\ chat.hpc = "finished"
    /\ chat.queryCalls = 5
    /\ chat.toolPath = "ok"

-----------------------------------------------------------------------------
(* Properties of two runs of uploadDocuments on one bucket.                *)

RaceLocalKeys == { ExpectedKey(race.tree[f]) : f \in DOMAIN race.tree }
Returned(i) == race.up[i].upc = "returned"
DistinctLocalKeys ==
    \A f, g \in DOMAIN race.tree :
        ExpectedKey(race.tree[f]) = ExpectedKey(race.tree[g]) => f = g
RacePuts(key) ==
    { ij \in Uploaders \X (1..Len(race.tree)) :
         /\ ij[2] \in DOMAIN race.up[ij[1]].puts
         /\ race.up[ij[1]].puts[ij[2]] = key }
RaceFilesWithKey(key) == { f \in DOMAIN race.tree : ExpectedKey(race.tree[f]) = key }

\* C28: the bucket never holds anything but its keys R from before the runs
\* and local keys, and once a run has returned, and so once both have, it
\* holds exactly R and the local keys; each run puts a key at most once for
\* each local path of that key, so both runs together at most twice; when
\* run 2 starts after run 1 has returned and the local keys are distinct,
\* run 2 puts nothing and no key is put twice.
C28_RacingRunsConverge ==
    /\ race.R \subseteq bucket
    /\ bucket \subseteq race.R \cup RaceLocalKeys
    /\ \A i \in Uploaders : Returned(i) => bucket = race.R \cup RaceLocalKeys
    /\ \A key \in RaceLocalKeys :
          Cardinality(RacePuts(key)) <= 2 * Cardinality(RaceFilesWithKey(key))
    /\ \A key \in race.R : RacePuts(key) = {}
    /\ (race.serial /\ DistinctLocalKeys /\ Returned(1)) =>
          /\ race.up[2].puts = << >>
          /\ \A key \in RaceLocalKeys : Cardinality(RacePuts(key)) <= 1
C28_Witness ==
    /\ ~race.serial
    /\ DistinctLocalKeys
    /\ Returned(1) /\ Returned(2)
    /\ Cardinality(RacePuts(<< "d", "/", "b" >>)) = 2
    /\ race.up[1].puts = << << "d", "/", "b" >> >>
    /\ race.up[2].puts = << << "d", "/", "b" >> >>
    /\ bucket = race.R \cup RaceLocalKeys
====
